---- MODULE Spec2Model ----
(***************************************************************************)
(* Pikachu Volleyball serve encoder (uzaramen108/pikaserve-encoder).       *)
(*                                                                         *)
(* The model covers the controller (PikachuVolleyball.gameLoop and its     *)
(* game states), the keyboard (PikaKeyboard / Key), the global action log  *)
(* ActList and the serve-code encoder (encodeUserInput, encodeActList,     *)
(* concatListAsString, logToNotepad).                                      *)
(*                                                                         *)
(* Strings are sequences of one-character strings, so that concatenation,  *)
(* String.prototype.slice and the decimal rendering of a run count are     *)
(* computed and not assumed.                                               *)
(***************************************************************************)
EXTENDS Integers, Sequences, FiniteSets, TLC

(***************************************************************************)
(* Bounds of the model.                                                    *)
(***************************************************************************)
\* longest run of one snapshot in the logs handed to the encoder
LongRun == 10
\* number of runs from which an encoder input log is built
MaxRuns == 2

(***************************************************************************)
(* Input snapshots (PikaUserInput): xDirection, yDirection, powerHit.      *)
(***************************************************************************)
Directions == {-1, 0, 1}

PikaUserInput(x, y, h) == [xDirection |-> x, yDirection |-> y, powerHit |-> h]

Snapshots == { PikaUserInput(x, y, h) : x \in Directions, y \in Directions, h \in {0, 1} }

(***************************************************************************)
(* Strings.                                                                *)
(***************************************************************************)
DigitChars == <<"0", "1", "2", "3", "4", "5", "6", "7", "8", "9">>

\* the value of an expression that returns nothing, as `+` renders it
Undefined == <<"u", "n", "d", "e", "f", "i", "n", "e", "d">>

\* Number -> string conversion of `current + count`
RECURSIVE NumberToString(_)
NumberToString(n) ==
    IF n < 10 THEN <<DigitChars[n + 1]>>
    ELSE NumberToString(n \div 10) \o <<DigitChars[(n % 10) + 1]>>

\* String.prototype.slice(1)
Slice1(s) == IF Len(s) = 0 THEN <<>> ELSE SubSeq(s, 2, Len(s))

(***************************************************************************)
(* encodeUserInput(userInput, playerNum)                                   *)
(***************************************************************************)
encodeUserInputMergedDiagonal(userInput, playerNum) ==
    LET x == userInput.xDirection
        y == userInput.yDirection
        sym == (IF x = -1 THEN <<"L">> ELSE IF x = 1 THEN <<"R">> ELSE <<>>)
               \o (IF userInput.powerHit = 1 THEN <<"H">> ELSE <<>>)
    IN  IF playerNum = 1 THEN <<"-">> \o sym \o <<"/">> ELSE <<"-", "/">> \o sym

encodeUserInputSameForBothSides(userInput, playerNum) ==
    LET x == userInput.xDirection
        y == userInput.yDirection
        sym == (IF y = -1 THEN <<"U">> ELSE IF y = 1 THEN <<"D">> ELSE <<>>)
               \o (IF x = -1 THEN <<"L">> ELSE IF x = 1 THEN <<"R">> ELSE <<>>)
               \o (IF userInput.powerHit = 1 THEN <<"H">> ELSE <<>>)
    IN  <<"-">> \o sym \o <<"/">>

encodeUserInput(userInput, playerNum) ==
    LET x == userInput.xDirection
        y == userInput.yDirection
    IN  IF playerNum = 1 THEN
            IF userInput.powerHit = 1 THEN
                CASE x = -1 /\ y = -1 -> <<"-", "U", "L", "H", "/">>
                  [] x = -1 /\ y = 0  -> <<"-", "L", "H", "/">>
                  [] x = -1 /\ y = 1  -> <<"-", "D", "L", "H", "/">>
                  [] x = 0 /\ y = -1  -> <<"-", "U", "H", "/">>
                  [] x = 0 /\ y = 0   -> <<"-", "H", "/">>
                  [] x = 0 /\ y = 1   -> <<"-", "D", "H", "/">>
                  [] x = 1 /\ y = -1  -> <<"-", "U", "R", "H", "/">>
                  [] x = 1 /\ y = 0   -> <<"-", "R", "H", "/">>
                  [] x = 1 /\ y = 1   -> <<"-", "D", "R", "H", "/">>
                  [] OTHER            -> Undefined
            ELSE IF userInput.powerHit = 0 THEN
                CASE x = -1 /\ y = -1 -> <<"-", "U", "L", "/">>
                  [] x = -1 /\ y = 0  -> <<"-", "L", "/">>
                  [] x = -1 /\ y = 1  -> <<"-", "D", "L", "/">>
                  [] x = 0 /\ y = -1  -> <<"-", "U", "/">>
                  [] x = 0 /\ y = 0   -> <<"-", "/">>
                  [] x = 0 /\ y = 1   -> <<"-", "D", "/">>
                  [] x = 1 /\ y = -1  -> <<"-", "U", "R", "/">>
                  [] x = 1 /\ y = 0   -> <<"-", "R", "/">>
                  [] x = 1 /\ y = 1   -> <<"-", "D", "R", "/">>
                  [] OTHER            -> Undefined
            ELSE Undefined
        ELSE
            IF userInput.powerHit = 1 THEN
                CASE x = -1 /\ y = -1 -> <<"-", "/", "U", "L", "H">>
                  [] x = -1 /\ y = 0  -> <<"-", "/", "L", "H">>
                  [] x = -1 /\ y = 1  -> <<"-", "/", "D", "L", "H">>
                  [] x = 0 /\ y = -1  -> <<"-", "/", "U", "H">>
                  [] x = 0 /\ y = 0   -> <<"-", "/", "H">>
                  [] x = 0 /\ y = 1   -> <<"-", "/", "D", "H">>
                  [] x = 1 /\ y = -1  -> <<"-", "/", "U", "R", "H">>
                  [] x = 1 /\ y = 0   -> <<"-", "/", "R", "H">>
                  [] x = 1 /\ y = 1   -> <<"-", "/", "D", "R", "H">>
                  [] OTHER            -> Undefined
            ELSE IF userInput.powerHit = 0 THEN
                CASE x = -1 /\ y = -1 -> <<"-", "/", "U", "L">>
                  [] x = -1 /\ y = 0  -> <<"-", "/", "L">>
                  [] x = -1 /\ y = 1  -> <<"-", "/", "D", "L">>
                  [] x = 0 /\ y = -1  -> <<"-", "/", "U">>
                  [] x = 0 /\ y = 0   -> <<"-", "/">>
                  [] x = 0 /\ y = 1   -> <<"-", "/", "D">>
                  [] x = 1 /\ y = -1  -> <<"-", "/", "U", "R">>
                  [] x = 1 /\ y = 0   -> <<"-", "/", "R">>
                  [] x = 1 /\ y = 1   -> <<"-", "/", "D", "R">>
                  [] OTHER            -> Undefined
            ELSE Undefined

(***************************************************************************)
(* encodeActList(code, playerNum): the token of every log element.         *)
(***************************************************************************)
encodeActList(code, playerNum) ==
    [i \in 1..Len(code) |-> encodeUserInput(code[i], playerNum)]

(***************************************************************************)
(* concatListAsString(arr): the loop over arr[1..] with its three locals   *)
(* result, current and count, and the final `result += current + count`.   *)
(***************************************************************************)
RECURSIVE concatLoop(_, _, _, _, _)
concatLoop(arr, i, result, current, count) ==
    IF i > Len(arr) THEN result \o current \o NumberToString(count)
    ELSE IF arr[i] = current
         THEN concatLoop(arr, i + 1, result, current, count + 1)
         ELSE concatLoop(arr, i + 1, result \o current \o NumberToString(count), arr[i], 1)

RECURSIVE concatLoopNoCount(_, _, _, _, _)
concatLoopNoCount(arr, i, result, current, count) ==
    IF i > Len(arr) THEN result \o current \o NumberToString(count)
    ELSE IF arr[i] = current
         THEN concatLoopNoCount(arr, i + 1, result, current, count)
         ELSE concatLoopNoCount(arr, i + 1, result \o current \o NumberToString(count), arr[i], 1)

concatListAsStringDropsCount(arr) ==
    IF Len(arr) = 0 THEN <<>> ELSE concatLoopNoCount(arr, 2, <<>>, arr[1], 1)

concatListAsStringNoMerge(arr) ==
    IF Len(arr) = 0 THEN <<>>
    ELSE LET RECURSIVE each(_)
             each(i) == IF i > Len(arr) THEN <<>>
                        ELSE arr[i] \o NumberToString(1) \o each(i + 1)
         IN  each(1)

concatListAsString(arr) ==
    IF Len(arr) = 0 THEN <<>> ELSE concatLoop(arr, 2, <<>>, arr[1], 1)

(***************************************************************************)
(* Keyboard (keyboard.js).  A Key is identified by its KeyboardEvent.code; *)
(* isDown is the set of codes whose Key.isDown is true.                    *)
(***************************************************************************)
\* new PikaKeyboard('KeyD', 'KeyG', 'KeyR', 'KeyV', 'KeyZ', 'KeyF'): keys[0..4]
Keyboard1Keys == <<"KeyD", "KeyG", "KeyR", "KeyV", "KeyZ">>
\* new PikaKeyboard('ArrowLeft', 'ArrowRight', 'ArrowUp', 'ArrowDown', 'Enter')
Keyboard2Keys == <<"ArrowLeft", "ArrowRight", "ArrowUp", "ArrowDown", "Enter">>
\* extraKeys is [] for both keyboards: neither constructor call passes a 7th argument
ExtraKeys == {}

KeysOf(i) == IF i = 1 THEN Keyboard1Keys ELSE Keyboard2Keys

\* the key codes for which the model delivers keydown / keyup events
Codes == {"KeyZ", "Enter"}

\* PikaKeyboard constructor: PikaUserInput fields 0, powerHitKeyIsDownPrevious false
NewPikaKeyboard ==
    [xDirection |-> 0, yDirection |-> 0, powerHit |-> 0, powerHitKeyIsDownPrevious |-> FALSE]

\* PikaKeyboard.getInput on a keyboard with the given keys, `down` the codes now down
getInputLevel(kb, keys, down) ==
    LET powerHitPressed == keys[5] \in down
    IN  [xDirection |-> IF keys[1] \in down THEN -1 ELSE IF keys[2] \in down THEN 1 ELSE 0,
         yDirection |-> IF keys[3] \in down THEN -1 ELSE IF keys[4] \in down THEN 1 ELSE 0,
         powerHit |-> IF powerHitPressed THEN 1 ELSE 0,
         powerHitKeyIsDownPrevious |-> powerHitPressed]

getInput(kb, keys, down) ==
    LET leftPressed == keys[1] \in down \/ (\E k \in ExtraKeys : k = "KeyD" /\ k \in down)
        rightPressed == keys[2] \in down \/ (\E k \in ExtraKeys : k = "KeyG" /\ k \in down)
        upPressed == keys[3] \in down \/ (\E k \in ExtraKeys : k = "KeyR" /\ k \in down)
        downPressed == keys[4] \in down
                       \/ (\E k \in ExtraKeys : k \in down /\ k \in {"KeyV", "KeyF", "ArrowDown"})
        powerHitPressed == keys[5] \in down \/ (\E k \in ExtraKeys : k = "KeyZ" /\ k \in down)
    IN  [xDirection |-> IF leftPressed THEN -1 ELSE IF rightPressed THEN 1 ELSE 0,
         yDirection |-> IF upPressed THEN -1 ELSE IF downPressed THEN 1 ELSE 0,
         powerHit |-> IF ~kb.powerHitKeyIsDownPrevious /\ powerHitPressed THEN 1 ELSE 0,
         powerHitKeyIsDownPrevious |-> powerHitPressed]

\* Key.downHandler / Key.upHandler for the Key whose value is event.code
downHandler(down, eventCode) == down \cup {eventCode}

upHandler(down, eventCode) == down \ {eventCode}

(***************************************************************************)
(* Program constants of the controller (PikachuVolleyball constructor).    *)
(***************************************************************************)
normalFPS == 25
slowMotionFPS == 5
SLOW_MOTION_FRAMES_NUM == 6
winningScore == 15
frameTotalIntro == 165
frameTotalAfterMenuSelection == 15
frameTotalBeforeStartOfNewGame == 15
frameTotalStartOfNewGame == 71
frameTotalAfterEndOfRound == 5
frameTotalBeforeStartOfNextRound == 30
frameTotalGameEnd == 211
\* the frame of menu() up to which the opening animation runs
menuAnimationFrames == 71
\* the frame of a game-end message from which a power hit leaves it
gameEndSkipFrame == 70
\* imported from physics.js
GROUND_HALF_WIDTH == 216

\* this.physics.ball.x at the start of a round: player 1 serves / player 2 serves
ballXPlayer1Serve == 56

ballXPlayer2Serve == 376

\* ball.punchEffectX of a new Ball
initialPunchEffectX == 0

\* Math.round(this.normalFPS / this.slowMotionFPS), both operands being multiples here
SlowMotionDivisor == normalFPS \div slowMotionFPS

(***************************************************************************)
(* Bounds of the controller model.                                         *)
(***************************************************************************)
\* a round tick runs only while the action log is shorter than this
MaxActLen == 2
\* menu() runs only while its frame counter is below this
MaxMenuFrame == 73
\* restart() is clicked at most this many times
MaxRestarts == 1
\* gameLoop() calls followed after a restart() call
MaxFramesAfterRestart == 2

(***************************************************************************)
(* State.                                                                  *)
(***************************************************************************)
VARIABLES
    isDown,                 \* the codes of the Keys whose isDown is true
    keyboardArray,          \* this.keyboardArray: two PikaKeyboard
    game,                   \* the fields of the PikachuVolleyball object
    ActList,                \* the module-level action log
    codeViewerOutput,       \* textContent of the element 'code-viewer-output'
    consoleLog,             \* the ActList printed by the last console.log(ActList)
    recorded,               \* the last gameLoop call reached replaySaver.recordInputs
    isBallTouchingGround,   \* the last gameLoop call ran round() and the ball touched ground
    roundTicks,             \* round() calls since the round began or the log was cleared
    flushedTicks,           \* the value roundTicks had reached at the last flush
    restarts,               \* number of restart() calls
    sinceRestart,           \* gameLoop calls since the last restart() call
    getInputHistory,        \* per keyboard: the power-hit key at its last two getInput calls
    code, playerNum,        \* the arguments of encodeActList
    new_code,               \* the result of encodeActList
    MsgOutput,              \* the result of concatListAsString
    pc                      \* position of the encoder run

vars == <<isDown, keyboardArray, game, ActList, codeViewerOutput, consoleLog, recorded,
          isBallTouchingGround, roundTicks, flushedTicks, restarts, sinceRestart,
          getInputHistory, code, playerNum, new_code, MsgOutput, pc>>

encVars == <<code, playerNum, new_code, MsgOutput, pc>>

\* new PikaPhysics(true, true), and the constructor's own fields
NewGame ==
    [state |-> "intro",
     frameCounter |-> 0,
     slowMotionFramesLeft |-> 0,
     slowMotionNumOfSkippedFrames |-> 0,
     selectedWithWho |-> 0,
     scores |-> <<0, 0>>,
     gameEnded |-> FALSE,
     roundEnded |-> FALSE,
     isPlayer2Serve |-> FALSE,
     paused |-> FALSE,
     isPracticeMode |-> FALSE,
     physics |-> [player1 |-> [isComputer |-> TRUE, isWinner |-> FALSE, gameEnded |-> FALSE],
                  player2 |-> [isComputer |-> TRUE, isWinner |-> FALSE, gameEnded |-> FALSE],
                  ball |-> [x |-> ballXPlayer1Serve, punchEffectX |-> initialPunchEffectX]]]

\* what one call of a game state works on: the controller, the keyboards frozen by
\* gameLoop, the action log, the display and the result of the physics step
World(g, kb, log, out, touch, logged, rec) ==
    [game |-> g, keyboardArray |-> kb, ActList |-> log, codeViewerOutput |-> out,
     isBallTouchingGround |-> touch, consoleLog |-> logged, recorded |-> rec]

\* the outcomes of physics.runEngineForNextFrame that the controller reads
PhysicsOutcomes ==
    { [isBallTouchingGround |-> FALSE, punchEffectX |-> GROUND_HALF_WIDTH] }
    \cup { [isBallTouchingGround |-> TRUE, punchEffectX |-> x] :
             x \in {GROUND_HALF_WIDTH - 1, GROUND_HALF_WIDTH, GROUND_HALF_WIDTH + 1} }

\* JavaScript a || b on numbers
Or(a, b) == IF a # 0 THEN a ELSE b

pressedPowerHit(w) ==
    w.keyboardArray[1].powerHit = 1 \/ w.keyboardArray[2].powerHit = 1

(***************************************************************************)
(* The game states up to the start of a round.                             *)
(***************************************************************************)
intro(w) ==
    LET fc == w.game.frameCounter + 1
    IN  IF pressedPowerHit(w) \/ fc >= frameTotalIntro
        THEN [w EXCEPT !.game.frameCounter = 0, !.game.state = "menu"]
        ELSE [w EXCEPT !.game.frameCounter = fc]

\* menu() on a confirmation that makes player 1 the human whichever key confirmed
selectPlayersAlwaysPlayer1(ph, sel, kb) ==
    IF sel = 1
    THEN [ph EXCEPT !.player1.isComputer = FALSE, !.player2.isComputer = FALSE]
    ELSE [ph EXCEPT !.player1.isComputer = FALSE, !.player2.isComputer = TRUE]

\* menu() on a confirmation: who is played by the computer
selectPlayers(ph, sel, kb) ==
    IF sel = 1
    THEN [ph EXCEPT !.player1.isComputer = FALSE, !.player2.isComputer = FALSE]
    ELSE IF kb[1].powerHit = 1
    THEN [ph EXCEPT !.player1.isComputer = FALSE, !.player2.isComputer = TRUE]
    ELSE IF kb[2].powerHit = 1
    THEN [ph EXCEPT !.player1.isComputer = TRUE, !.player2.isComputer = FALSE]
    ELSE ph

menu(w) ==
    LET g0 == IF w.game.frameCounter = 0
              THEN [w.game EXCEPT !.selectedWithWho = 0] ELSE w.game
        fc == g0.frameCounter + 1
        kb == w.keyboardArray
        sel == IF (kb[1].yDirection = -1 \/ kb[2].yDirection = -1) /\ g0.selectedWithWho = 1
               THEN 0
               ELSE IF (kb[1].yDirection = 1 \/ kb[2].yDirection = 1) /\ g0.selectedWithWho = 0
               THEN 1
               ELSE g0.selectedWithWho
        physAfter == selectPlayers(g0.physics, sel, kb)
    IN  IF fc < menuAnimationFrames /\ pressedPowerHit(w)
        THEN [w EXCEPT !.game = [g0 EXCEPT !.frameCounter = menuAnimationFrames]]
        ELSE IF fc <= menuAnimationFrames
        THEN [w EXCEPT !.game = [g0 EXCEPT !.frameCounter = fc]]
        ELSE IF pressedPowerHit(w)
        THEN [w EXCEPT !.game = [g0 EXCEPT !.selectedWithWho = sel, !.physics = physAfter,
                                           !.frameCounter = 0,
                                           !.state = "afterMenuSelection"]]
        ELSE [w EXCEPT !.game = [g0 EXCEPT !.selectedWithWho = sel, !.frameCounter = fc]]

\* afterMenuSelection() handing over to startOfNewGame directly
afterMenuSelectionSkipsFadeIn(w) ==
    LET fc == w.game.frameCounter + 1
    IN  IF fc >= frameTotalAfterMenuSelection
        THEN [w EXCEPT !.game.frameCounter = 0, !.game.state = "startOfNewGame"]
        ELSE [w EXCEPT !.game.frameCounter = fc]

afterMenuSelection(w) ==
    LET fc == w.game.frameCounter + 1
    IN  IF fc >= frameTotalAfterMenuSelection
        THEN [w EXCEPT !.game.frameCounter = 0, !.game.state = "beforeStartOfNewGame"]
        ELSE [w EXCEPT !.game.frameCounter = fc]

beforeStartOfNewGame(w) ==
    LET fc == w.game.frameCounter + 1
    IN  IF fc >= frameTotalBeforeStartOfNewGame
        THEN [w EXCEPT !.game.frameCounter = 0, !.game.state = "startOfNewGame"]
        ELSE [w EXCEPT !.game.frameCounter = fc]

\* ball.x after ball.initializeForNewRound(isPlayer2Serve) alone
ballXByServe(p1c, isPlayer2Serve) ==
    IF isPlayer2Serve THEN ballXPlayer2Serve ELSE ballXPlayer1Serve

\* ball.x at frame 0 of startOfNewGame and of beforeStartOfNextRound
ballXForNewRound(p1c, isPlayer2Serve) ==
    IF p1c THEN ballXPlayer2Serve ELSE ballXPlayer1Serve

startOfNewGame(w) ==
    LET g0 == IF w.game.frameCounter = 0
              THEN [w.game EXCEPT !.gameEnded = FALSE, !.roundEnded = FALSE,
                                  !.isPlayer2Serve = FALSE,
                                  !.physics.player1.gameEnded = FALSE,
                                  !.physics.player1.isWinner = FALSE,
                                  !.physics.player2.gameEnded = FALSE,
                                  !.physics.player2.isWinner = FALSE,
                                  !.scores = <<0, 0>>,
                                  !.physics.ball.x =
                                      ballXForNewRound(w.game.physics.player1.isComputer,
                                                       FALSE)]
              ELSE w.game
        fc == g0.frameCounter + 1
    IN  IF fc >= frameTotalStartOfNewGame
        THEN [w EXCEPT !.game = [g0 EXCEPT !.frameCounter = 0, !.state = "round"]]
        ELSE [w EXCEPT !.game = [g0 EXCEPT !.frameCounter = fc]]

(***************************************************************************)
(* round(): one tick of play.  phys is the outcome of                      *)
(* this.physics.runEngineForNextFrame(this.keyboardArray).                 *)
(***************************************************************************)
\* logToNotepad(message) with the target element present: the new textContent
logToNotepad(message) == message

\* the merge with keyboard 2's value taken first
mergeKeyboardsSecondFirst(target, kb0, kb1) ==
    [target EXCEPT !.xDirection = Or(kb1.xDirection, kb0.xDirection),
                   !.yDirection = Or(kb1.yDirection, kb0.yDirection),
                   !.powerHit = Or(kb1.powerHit, kb0.powerHit)]

\* the merge written with + for ||
mergeKeyboardsSum(target, kb0, kb1) ==
    [target EXCEPT !.xDirection = kb0.xDirection + kb1.xDirection,
                   !.yDirection = kb0.yDirection + kb1.yDirection,
                   !.powerHit = kb0.powerHit + kb1.powerHit]

\* the three `a = a0 || a1` assignments of one keyboard
mergeKeyboards(target, kb0, kb1) ==
    [target EXCEPT !.xDirection = Or(kb0.xDirection, kb1.xDirection),
                   !.yDirection = Or(kb0.yDirection, kb1.yDirection),
                   !.powerHit = Or(kb0.powerHit, kb1.powerHit)]

\* new PikaUserInput() filled from a keyboard
inputOf(kb) == PikaUserInput(kb.xDirection, kb.yDirection, kb.powerHit)

\* scoring with the centre counted as a landing on the left
scoringCentreIsLeft(g, punchEffectX) ==
    LET leftLanding == punchEffectX <= GROUND_HALF_WIDTH
        ends == IF leftLanding THEN g.scores[2] >= winningScore
                ELSE g.scores[1] >= winningScore
        g1 == IF ends
              THEN [g EXCEPT !.gameEnded = TRUE,
                             !.physics.player1.isWinner = ~leftLanding,
                             !.physics.player2.isWinner = leftLanding,
                             !.physics.player1.gameEnded = TRUE,
                             !.physics.player2.gameEnded = TRUE]
              ELSE g
    IN  [g1 EXCEPT !.isPlayer2Serve = leftLanding,
                   !.slowMotionFramesLeft =
                       IF g1.roundEnded = FALSE /\ g1.gameEnded = FALSE
                       THEN SLOW_MOTION_FRAMES_NUM ELSE @,
                   !.roundEnded = TRUE]

\* scoring as in the original game: the side that wins the round gets a point
scoringIncrements(g, punchEffectX) ==
    LET leftLanding == punchEffectX < GROUND_HALF_WIDTH
        ends == IF leftLanding THEN g.scores[2] >= winningScore
                ELSE g.scores[1] >= winningScore
        g1 == IF ends
              THEN [g EXCEPT !.gameEnded = TRUE,
                             !.physics.player1.isWinner = ~leftLanding,
                             !.physics.player2.isWinner = leftLanding,
                             !.physics.player1.gameEnded = TRUE,
                             !.physics.player2.gameEnded = TRUE]
              ELSE g
    IN  [g1 EXCEPT !.scores[IF leftLanding THEN 2 ELSE 1] = @ + 1,
                   !.isPlayer2Serve = leftLanding,
                   !.slowMotionFramesLeft =
                       IF g1.roundEnded = FALSE /\ g1.gameEnded = FALSE
                       THEN SLOW_MOTION_FRAMES_NUM ELSE @,
                   !.roundEnded = TRUE]

\* scoring that ends the match while the score is still below winningScore
scoringEndsBelowWinningScore(g, punchEffectX) ==
    LET leftLanding == punchEffectX < GROUND_HALF_WIDTH
        ends == IF leftLanding THEN g.scores[2] <= winningScore
                ELSE g.scores[1] <= winningScore
        g1 == IF ends
              THEN [g EXCEPT !.gameEnded = TRUE,
                             !.physics.player1.isWinner = ~leftLanding,
                             !.physics.player2.isWinner = leftLanding,
                             !.physics.player1.gameEnded = TRUE,
                             !.physics.player2.gameEnded = TRUE]
              ELSE g
    IN  [g1 EXCEPT !.isPlayer2Serve = leftLanding,
                   !.slowMotionFramesLeft =
                       IF g1.roundEnded = FALSE /\ g1.gameEnded = FALSE
                       THEN SLOW_MOTION_FRAMES_NUM ELSE @,
                   !.roundEnded = TRUE]

\* the scoring branch of round(), taken on a ground touch that ends the round
scoring(g, punchEffectX) ==
    LET leftLanding == punchEffectX < GROUND_HALF_WIDTH
        ends == IF leftLanding THEN g.scores[2] >= winningScore
                ELSE g.scores[1] >= winningScore
        g1 == IF ends
              THEN [g EXCEPT !.gameEnded = TRUE,
                             !.physics.player1.isWinner = ~leftLanding,
                             !.physics.player2.isWinner = leftLanding,
                             !.physics.player1.gameEnded = TRUE,
                             !.physics.player2.gameEnded = TRUE]
              ELSE g
    IN  [g1 EXCEPT !.isPlayer2Serve = leftLanding,
                   !.slowMotionFramesLeft =
                       IF g1.roundEnded = FALSE /\ g1.gameEnded = FALSE
                       THEN SLOW_MOTION_FRAMES_NUM ELSE @,
                   !.roundEnded = TRUE]

\* the input round() pushes to ActList
recordedInputAlwaysPlayer1(p1c, player1Input, player2Input) == player1Input

recordedInput(p1c, player1Input, player2Input) ==
    IF p1c THEN player2Input ELSE player1Input

\* the playerNum round() passes to encodeActList
flushSide(p1c) == IF p1c THEN 2 ELSE 1

\* the string round() hands to logToNotepad
notepadMessageUnsliced(MsgOut) == MsgOut

notepadMessage(MsgOut) == Slice1(MsgOut)

\* ActList after the flush: ActList.length = 0
logAfterFlushKept(pushed) == pushed

logAfterFlush(pushed) == <<>>

\* the ball after this.physics.runEngineForNextFrame with the outcome phys
ballAfterEngine(phys) == [x |-> phys.punchEffectX, punchEffectX |-> phys.punchEffectX]

round(w, phys) ==
    LET g == w.game
        kb == w.keyboardArray
        p1c == g.physics.player1.isComputer
        p2c == g.physics.player2.isComputer
        pressed == pressedPowerHit(w)
    IN  IF p1c /\ p2c /\ pressed
        THEN [w EXCEPT !.game.frameCounter = 0, !.game.state = "intro"]
        ELSE
        LET kbA == IF p1c THEN [kb EXCEPT ![2] = mergeKeyboards(kb[2], kb[1], kb[2])] ELSE kb
            kbB == IF p2c THEN [kbA EXCEPT ![1] = mergeKeyboards(kbA[1], kbA[1], kbA[2])]
                   ELSE kbA
            player1Input == inputOf(kbB[1])
            player2Input == inputOf(kbB[2])
            pushed == Append(w.ActList, recordedInput(p1c, player1Input, player2Input))
            touch == phys.isBallTouchingGround
            CodeOutput == encodeActList(pushed, flushSide(p1c))
            MsgOut == concatListAsString(CodeOutput)
            out == IF touch THEN logToNotepad(notepadMessage(MsgOut))
                   ELSE w.codeViewerOutput
            log == IF touch THEN logAfterFlush(pushed) ELSE pushed
            gPhys == [g EXCEPT !.physics.ball = ballAfterEngine(phys)]
            gEnd == LET fc == gPhys.frameCounter + 1
                    IN  IF fc >= frameTotalGameEnd \/ (fc >= gameEndSkipFrame /\ pressed)
                        THEN [gPhys EXCEPT !.frameCounter = 0, !.state = "intro"]
                        ELSE [gPhys EXCEPT !.frameCounter = fc]
            gScore == IF touch /\ gPhys.isPracticeMode = FALSE /\ gPhys.roundEnded = FALSE
                         /\ gPhys.gameEnded = FALSE
                      THEN scoring(gPhys, gPhys.physics.ball.punchEffectX) ELSE gPhys
            gOut == IF gScore.roundEnded /\ gScore.gameEnded = FALSE
                       /\ gScore.slowMotionFramesLeft = 0
                    THEN [gScore EXCEPT !.state = "afterEndOfRound"] ELSE gScore
        IN  [game |-> IF g.gameEnded THEN gEnd ELSE gOut,
             keyboardArray |-> kbB,
             ActList |-> log,
             codeViewerOutput |-> out,
             isBallTouchingGround |-> touch,
             consoleLog |-> IF touch THEN pushed ELSE w.consoleLog,
             recorded |-> w.recorded]

\* afterEndOfRound() leaving one frame later
afterEndOfRoundOneFrameLate(w) ==
    LET fc == w.game.frameCounter + 1
    IN  IF fc > frameTotalAfterEndOfRound
        THEN [w EXCEPT !.game.frameCounter = 0, !.game.state = "beforeStartOfNextRound"]
        ELSE [w EXCEPT !.game.frameCounter = fc]

afterEndOfRound(w) ==
    LET fc == w.game.frameCounter + 1
    IN  IF fc >= frameTotalAfterEndOfRound
        THEN [w EXCEPT !.game.frameCounter = 0, !.game.state = "beforeStartOfNextRound"]
        ELSE [w EXCEPT !.game.frameCounter = fc]

beforeStartOfNextRoundKeepsLog(w) ==
    LET g0 == IF w.game.frameCounter = 0
              THEN [w.game EXCEPT !.physics.ball.x =
                                      ballXForNewRound(w.game.physics.player1.isComputer,
                                                       w.game.isPlayer2Serve)]
              ELSE w.game
        fc == g0.frameCounter + 1
    IN  IF fc >= frameTotalBeforeStartOfNextRound
        THEN [w EXCEPT !.game = [g0 EXCEPT !.frameCounter = 0, !.roundEnded = FALSE,
                                           !.state = "round"]]
        ELSE [w EXCEPT !.game = [g0 EXCEPT !.frameCounter = fc]]

beforeStartOfNextRound(w) ==
    LET g0 == IF w.game.frameCounter = 0
              THEN [w.game EXCEPT !.physics.ball.x =
                                      ballXForNewRound(w.game.physics.player1.isComputer,
                                                       w.game.isPlayer2Serve)]
              ELSE w.game
        fc == g0.frameCounter + 1
    IN  IF fc >= frameTotalBeforeStartOfNextRound
        THEN [w EXCEPT !.game = [g0 EXCEPT !.frameCounter = 0, !.roundEnded = FALSE,
                                           !.state = "round"],
                       !.ActList = <<>>]
        ELSE [w EXCEPT !.game = [g0 EXCEPT !.frameCounter = fc]]

\* this.state()
callState(w, phys) ==
    CASE w.game.state = "intro" -> intro(w)
      [] w.game.state = "menu" -> menu(w)
      [] w.game.state = "afterMenuSelection" -> afterMenuSelection(w)
      [] w.game.state = "beforeStartOfNewGame" -> beforeStartOfNewGame(w)
      [] w.game.state = "startOfNewGame" -> startOfNewGame(w)
      [] w.game.state = "round" -> round(w, phys)
      [] w.game.state = "afterEndOfRound" -> afterEndOfRound(w)
      [] w.game.state = "beforeStartOfNextRound" -> beforeStartOfNextRound(w)

(***************************************************************************)
(* gameLoop(): `down` are the codes of the keys that are down at the call. *)
(***************************************************************************)
\* the slow-motion gate lets this call through to this.state()
reachesState(g) ==
    /\ ~g.paused
    /\ g.slowMotionFramesLeft > 0 =>
           (g.slowMotionNumOfSkippedFrames + 1) % SlowMotionDivisor = 0

\* gameLoop() without the skipping of calls in slow motion
gameLoopUnpausedNoSkip(w, down, phys) ==
    LET kb == <<getInput(w.keyboardArray[1], Keyboard1Keys, down),
                getInput(w.keyboardArray[2], Keyboard2Keys, down)>>
        w1 == [w EXCEPT !.keyboardArray = kb, !.isBallTouchingGround = FALSE,
                        !.recorded = TRUE]
    IN  IF w.game.slowMotionFramesLeft > 0
        THEN callState([w1 EXCEPT !.game.slowMotionFramesLeft = @ - 1,
                                  !.game.slowMotionNumOfSkippedFrames = 0], phys)
        ELSE callState(w1, phys)

\* gameLoop() from its first statement after the pause gate
gameLoopUnpaused(w, down, phys) ==
    LET kb == <<getInput(w.keyboardArray[1], Keyboard1Keys, down),
                getInput(w.keyboardArray[2], Keyboard2Keys, down)>>
        w1 == [w EXCEPT !.keyboardArray = kb, !.isBallTouchingGround = FALSE,
                        !.recorded = TRUE]
    IN  IF w.game.slowMotionFramesLeft > 0
        THEN IF (w.game.slowMotionNumOfSkippedFrames + 1) % SlowMotionDivisor # 0
             THEN [w1 EXCEPT !.game.slowMotionNumOfSkippedFrames = @ + 1]
             ELSE callState([w1 EXCEPT !.game.slowMotionFramesLeft = @ - 1,
                                       !.game.slowMotionNumOfSkippedFrames = 0], phys)
        ELSE callState(w1, phys)

gameLoopNoPauseGate(w, down, phys) == gameLoopUnpaused(w, down, phys)

gameLoop(w, down, phys) ==
    IF w.game.paused = TRUE
    THEN [w EXCEPT !.isBallTouchingGround = FALSE, !.recorded = FALSE]
    ELSE gameLoopUnpaused(w, down, phys)

\* restart(): the fields of the controller and the action log it resets
restart(w) ==
    [w EXCEPT !.game.frameCounter = 0,
              !.game.slowMotionFramesLeft = 0,
              !.game.slowMotionNumOfSkippedFrames = 0,
              !.ActList = <<>>,
              !.game.state = "intro"]

(***************************************************************************)
(* Actions of the controller.                                              *)
(***************************************************************************)
NoHistory == [before |-> FALSE, last |-> FALSE, hitBefore |-> 0]

Init ==
    /\ isDown = {}
    /\ keyboardArray = <<NewPikaKeyboard, NewPikaKeyboard>>
    /\ game = NewGame
    /\ ActList = <<>>
    /\ codeViewerOutput = <<>>
    /\ consoleLog = <<>>
    /\ recorded = FALSE
    /\ isBallTouchingGround = FALSE
    /\ roundTicks = 0
    /\ flushedTicks = 0
    /\ restarts = 0
    /\ sinceRestart = 0
    /\ getInputHistory = <<NoHistory, NoHistory>>
    /\ code = <<>>
    /\ playerNum = 1
    /\ new_code = <<>>
    /\ MsgOutput = <<>>
    /\ pc = "game"

\* this call of gameLoop runs round()
runsRound(g) == reachesState(g) /\ g.state = "round"

NoTouch == [isBallTouchingGround |-> FALSE, punchEffectX |-> GROUND_HALF_WIDTH]

TheWorld ==
    World(game, keyboardArray, ActList, codeViewerOutput, isBallTouchingGround,
          consoleLog, recorded)

\* a timer tick: gameLoop() with the keys `down` and the physics outcome `phys`,
\* a round tick running only while the action log is shorter than maxLen
GameLoopCallUpTo(down, phys, maxLen) ==
    LET w == gameLoop(TheWorld, down, phys)
    IN  /\ pc = "game"
        /\ runsRound(game) => Len(ActList) < maxLen
        /\ (reachesState(game) /\ game.state = "menu") => game.frameCounter < MaxMenuFrame
        /\ restarts > 0 => sinceRestart < MaxFramesAfterRestart
        /\ ~runsRound(game) => phys = NoTouch
        /\ isDown' = down
        /\ keyboardArray' = w.keyboardArray
        /\ game' = w.game
        /\ ActList' = w.ActList
        /\ codeViewerOutput' = w.codeViewerOutput
        /\ consoleLog' = w.consoleLog
        /\ isBallTouchingGround' = w.isBallTouchingGround
        /\ recorded' = w.recorded
        /\ roundTicks' = IF runsRound(game)
                         THEN IF w.isBallTouchingGround THEN 0 ELSE roundTicks + 1
                         ELSE IF game.state # "round" /\ w.game.state = "round" THEN 0
                         ELSE roundTicks
        /\ flushedTicks' = IF runsRound(game) /\ w.isBallTouchingGround
                           THEN roundTicks + 1 ELSE flushedTicks
        /\ sinceRestart' = IF restarts > 0 THEN sinceRestart + 1 ELSE 0
        /\ UNCHANGED <<restarts, getInputHistory, encVars>>

GameLoopCall(down, phys) == GameLoopCallUpTo(down, phys, MaxActLen)

\* the outcomes with the ball in flight, landing left of the centre or at the centre
OutcomesUpToCentre == {phys \in PhysicsOutcomes : phys.punchEffectX <= GROUND_HALF_WIDTH}

GameLoop == \E down \in SUBSET Codes, phys \in OutcomesUpToCentre : GameLoopCall(down, phys)

\* the calls of setCustomRng so far: restart() is its only caller
setCustomRngCalls == restarts

\* the restart button
Restart ==
    LET w == restart(TheWorld)
    IN  /\ pc = "game"
        /\ restarts < MaxRestarts
        /\ restarts' = restarts + 1
        /\ sinceRestart' = 0
        /\ game' = w.game
        /\ ActList' = w.ActList
        /\ roundTicks' = 0
        /\ UNCHANGED <<isDown, keyboardArray, codeViewerOutput, consoleLog, recorded,
                       isBallTouchingGround, flushedTicks, getInputHistory, encVars>>

Next == GameLoop \/ Restart

Spec == Init /\ [][Next]_vars

(***************************************************************************)
(* The controller with its pause and practice-mode controls, driven by     *)
(* one key.                                                                *)
(***************************************************************************)
ControlCodes == {"KeyZ"}

\* the pause control: this.paused = b
SetPaused(b) ==
    /\ pc = "game"
    /\ game.paused # b
    /\ game' = [game EXCEPT !.paused = b]
    /\ UNCHANGED <<isDown, keyboardArray, ActList, codeViewerOutput, consoleLog, recorded,
                   isBallTouchingGround, roundTicks, flushedTicks, restarts, sinceRestart,
                   getInputHistory, encVars>>

\* set isPracticeMode(bool)
SetPracticeMode(b) ==
    /\ pc = "game"
    /\ game.isPracticeMode # b
    /\ game' = [game EXCEPT !.isPracticeMode = b]
    /\ UNCHANGED <<isDown, keyboardArray, ActList, codeViewerOutput, consoleLog, recorded,
                   isBallTouchingGround, roundTicks, flushedTicks, restarts, sinceRestart,
                   getInputHistory, encVars>>

ControlGameLoop ==
    \E down \in SUBSET ControlCodes, phys \in OutcomesUpToCentre : GameLoopCall(down, phys)

Pause == \E b \in BOOLEAN : SetPaused(b)

PracticeMode == \E b \in BOOLEAN : SetPracticeMode(b)

NextControl == ControlGameLoop \/ Pause \/ PracticeMode

SpecControl == Init /\ [][NextControl]_vars

(***************************************************************************)
(* The keyboard alone: key events interleaved with getInput calls.         *)
(***************************************************************************)
KeyboardCodes == {"KeyZ", "Enter", "KeyD", "ArrowDown"}

gameVars == <<game, ActList, codeViewerOutput, consoleLog, recorded, isBallTouchingGround,
              roundTicks, flushedTicks, restarts, sinceRestart>>

KeyDown(c) ==
    /\ pc = "game"
    /\ isDown' = downHandler(isDown, c)
    /\ UNCHANGED <<keyboardArray, getInputHistory, gameVars, encVars>>

KeyUp(c) ==
    /\ pc = "game"
    /\ isDown' = upHandler(isDown, c)
    /\ UNCHANGED <<keyboardArray, getInputHistory, gameVars, encVars>>

\* keyboardArray[i].getInput()
GetInput(i) ==
    /\ pc = "game"
    /\ keyboardArray' = [keyboardArray EXCEPT ![i] = getInput(@, KeysOf(i), isDown)]
    /\ getInputHistory' =
           [getInputHistory EXCEPT ![i] = [before |-> @.last,
                                           last |-> KeysOf(i)[5] \in isDown,
                                           hitBefore |-> keyboardArray[i].powerHit]]
    /\ UNCHANGED <<isDown, gameVars, encVars>>

KeyDownEvent == \E c \in KeyboardCodes : KeyDown(c)

KeyUpEvent == \E c \in KeyboardCodes : KeyUp(c)

GetInputCall == \E i \in {1, 2} : GetInput(i)

NextKeyboard == KeyDownEvent \/ KeyUpEvent \/ GetInputCall

SpecKeyboard == Init /\ [][NextKeyboard]_vars

(***************************************************************************)
(* The controller up to the first tick of a round, driven by the power-hit *)
(* keys and by the keys that move the menu selection.                      *)
(***************************************************************************)
MenuCodes == {"KeyZ", "Enter", "ArrowDown", "KeyR"}

MenuGameLoop ==
    \E down \in SUBSET MenuCodes :
        /\ game.state # "round"
        /\ GameLoopCall(down, NoTouch)

SpecMenu == Init /\ [][MenuGameLoop]_vars

(***************************************************************************)
(* The controller with direction keys of both keyboards in a round, up to  *)
(* the first flush or MaxFirstRoundTicks round ticks.                      *)
(***************************************************************************)
MaxFirstRoundTicks == 1

RoundCodes == {"KeyZ", "Enter", "KeyD", "ArrowRight", "KeyR", "ArrowDown"}

FirstRoundGameLoop ==
    \E down \in SUBSET RoundCodes, phys \in PhysicsOutcomes :
        /\ game.state # "round" => down \subseteq Codes
        /\ game.state = "round" => flushedTicks = 0 /\ Len(ActList) < MaxFirstRoundTicks
        /\ GameLoopCall(down, phys)

SpecFirstRound == Init /\ [][FirstRoundGameLoop]_vars

(***************************************************************************)
(* The controller over whole rounds and the pauses between them: one key   *)
(* up to the start of play, no key during play, any outcome of the physics *)
(* step on every round tick, and the practice-mode control.                *)
(***************************************************************************)
\* a round tick runs only while the action log is shorter than this
MaxRoundLog == 6

RoundEndGameLoop ==
    \E down \in SUBSET ControlCodes, phys \in PhysicsOutcomes :
        /\ game.state \in {"round", "afterEndOfRound", "beforeStartOfNextRound"} => down = {}
        /\ GameLoopCallUpTo(down, phys, MaxRoundLog)

NextRoundEnd == RoundEndGameLoop \/ PracticeMode

SpecRoundEnd == Init /\ [][NextRoundEnd]_vars

(***************************************************************************)
(* The encoder alone: encodeActList and concatListAsString applied to a    *)
(* log built from at most MaxRuns runs of 1 or LongRun equal snapshots.    *)
(***************************************************************************)
RunLengths == {1, LongRun}

Repeat(s, n) == [i \in 1..n |-> s]

RECURSIVE Expand(_)
Expand(runs) ==
    IF Len(runs) = 0 THEN <<>>
    ELSE Repeat(runs[1][1], runs[1][2]) \o Expand(Tail(runs))

RunLists == UNION { [1..n -> Snapshots \X RunLengths] : n \in 0..MaxRuns }

EncoderLogs == { Expand(runs) : runs \in RunLists }

InitEncoder ==
    /\ isDown = {}
    /\ keyboardArray = <<NewPikaKeyboard, NewPikaKeyboard>>
    /\ game = NewGame
    /\ ActList = <<>>
    /\ codeViewerOutput = <<>>
    /\ consoleLog = <<>>
    /\ recorded = FALSE
    /\ isBallTouchingGround = FALSE
    /\ roundTicks = 0
    /\ flushedTicks = 0
    /\ restarts = 0
    /\ sinceRestart = 0
    /\ getInputHistory = <<NoHistory, NoHistory>>
    /\ code \in EncoderLogs
    /\ playerNum \in {1, 2}
    /\ new_code = <<>>
    /\ MsgOutput = <<>>
    /\ pc = "encodeActList"

EncodeActList ==
    /\ pc = "encodeActList"
    /\ new_code' = encodeActList(code, playerNum)
    /\ pc' = "concatListAsString"
    /\ UNCHANGED <<code, playerNum, MsgOutput, isDown, keyboardArray, getInputHistory,
                   gameVars>>

ConcatListAsString ==
    /\ pc = "concatListAsString"
    /\ MsgOutput' = concatListAsString(new_code)
    /\ pc' = "done"
    /\ UNCHANGED <<code, playerNum, new_code, isDown, keyboardArray, getInputHistory,
                   gameVars>>

NextEncoder == EncodeActList \/ ConcatListAsString

SpecEncoder == InitEncoder /\ [][NextEncoder]_vars

(***************************************************************************)
(* Reading a serve code: runs <token><decimal count>.  A token is the      *)
(* longest stretch without a digit, its count the digits that follow.      *)
(***************************************************************************)
DigitSet == {DigitChars[i] : i \in 1..10}

DigitValue(c) == (CHOOSE i \in 1..10 : DigitChars[i] = c) - 1

\* the first position from `from` on whose character is (isDigit) or is not a digit
RECURSIVE Scan(_, _, _)
Scan(s, from, isDigit) ==
    IF from > Len(s) \/ ((s[from] \in DigitSet) = isDigit) THEN from
    ELSE Scan(s, from + 1, isDigit)

RECURSIVE DecimalValue(_)
DecimalValue(ds) ==
    IF Len(ds) = 0 THEN 0
    ELSE 10 * DecimalValue(SubSeq(ds, 1, Len(ds) - 1)) + DigitValue(ds[Len(ds)])

RECURSIVE ParseRuns(_)
ParseRuns(s) ==
    IF Len(s) = 0 THEN <<>>
    ELSE LET d == Scan(s, 1, TRUE)
             e == Scan(s, d, FALSE)
         IN  <<[token |-> SubSeq(s, 1, d - 1),
                count |-> DecimalValue(SubSeq(s, d, e - 1))]>>
             \o ParseRuns(SubSeq(s, e, Len(s)))

RECURSIVE ExpandRuns(_)
ExpandRuns(runs) ==
    IF Len(runs) = 0 THEN <<>>
    ELSE Repeat(runs[1].token, runs[1].count) \o ExpandRuns(Tail(runs))

RECURSIVE SumCounts(_)
SumCounts(runs) ==
    IF Len(runs) = 0 THEN 0 ELSE runs[1].count + SumCounts(Tail(runs))

Letters == {"U", "D", "L", "R", "H"}

\* the symbols of a token of the given side, or <<"?">> when it has not that side's shape
SymbolsOf(token, side) ==
    IF side = 1
    THEN IF Len(token) >= 2 /\ token[1] = "-" /\ token[Len(token)] = "/"
         THEN SubSeq(token, 2, Len(token) - 1) ELSE <<"?">>
    ELSE IF Len(token) >= 2 /\ token[1] = "-" /\ token[2] = "/"
         THEN SubSeq(token, 3, Len(token)) ELSE <<"?">>

Has(sym, c) == \E i \in 1..Len(sym) : sym[i] = c

\* the snapshot a token stands for
DecodeToken(token, side) ==
    LET sym == SymbolsOf(token, side)
    IN  IF \E i \in 1..Len(sym) : sym[i] \notin Letters THEN "invalid"
        ELSE PikaUserInput(IF Has(sym, "L") THEN -1 ELSE IF Has(sym, "R") THEN 1 ELSE 0,
                           IF Has(sym, "U") THEN -1 ELSE IF Has(sym, "D") THEN 1 ELSE 0,
                           IF Has(sym, "H") THEN 1 ELSE 0)

\* the log a serve code of the given side stands for
Decode(s, side) ==
    LET tokens == ExpandRuns(ParseRuns(s))
    IN  [i \in 1..Len(tokens) |-> DecodeToken(tokens[i], side)]

Encoded == pc = "done"

\* C1: encodeUserInput returns a defined string for each of the 18 snapshots of a
\* side, and different snapshots of one side never get the same string.
C1_TokenizeTotalInjective ==
    pc \in {"concatListAsString", "done"} =>
        /\ Len(new_code) = Len(code)
        /\ \A i \in 1..Len(code) :
               /\ new_code[i] # Undefined
               /\ Len(new_code[i]) >= 2
               /\ \A j \in 1..Len(code) : code[i] # code[j] => new_code[i] # new_code[j]

C1_Witness ==
    /\ Encoded
    /\ playerNum = 2
    /\ Len(code) = 2
    /\ code[1] = PikaUserInput(-1, 1, 1)
    /\ code[2] = PikaUserInput(-1, -1, 1)

\* C2: decoding the string concatListAsString(encodeActList(L, side)) run by run
\* gives back the log L.
C2_RoundTrip == Encoded => Decode(MsgOutput, playerNum) = code

C2_Witness ==
    /\ Encoded
    /\ Len(code) = LongRun + 1
    /\ code[1] # code[2]
    /\ Decode(MsgOutput, playerNum) = code

\* C3: the output has one run <token><count> per maximal run of equal tokens, in
\* order: the runs expand to the token list, every count is at least 1, no two
\* adjacent runs carry the same token; N equal snapshots give one run of count N,
\* a log without equal neighbours gives N runs of count 1.
C3_MaximalRuns ==
    Encoded =>
        LET runs == ParseRuns(MsgOutput)
        IN  /\ ExpandRuns(runs) = new_code
            /\ \A k \in 1..Len(runs) : runs[k].count >= 1
            /\ \A k \in 1..(Len(runs) - 1) : runs[k].token # runs[k + 1].token
            /\ (Len(code) >= 1 /\ \A i \in 1..Len(code) : code[i] = code[1])
                   => Len(runs) = 1 /\ runs[1].count = Len(code)
            /\ (\A i \in 1..(Len(code) - 1) : code[i] # code[i + 1])
                   => Len(runs) = Len(code) /\ \A k \in 1..Len(runs) : runs[k].count = 1

C3_Witness ==
    /\ Encoded
    /\ Len(code) = 2 * LongRun
    /\ \A i \in 1..Len(code) : code[i] = code[1]
    /\ Len(ParseRuns(MsgOutput)) = 1
    /\ ParseRuns(MsgOutput)[1].count = 2 * LongRun

Neutral == PikaUserInput(0, 0, 0)

\* the side a serve code shows: 1 when a symbol stands before a '/', 2 when one
\* stands after a '/', 0 when it holds no symbol
ShownSide(s) ==
    IF \E i \in 1..(Len(s) - 1) : s[i] \in Letters /\ s[i + 1] = "/" THEN 1
    ELSE IF \E i \in 1..(Len(s) - 1) : s[i] = "/" /\ s[i + 1] \in Letters THEN 2
    ELSE 0

\* C4 as claimed: every token of one side differs from every token of the other.
C4_SidesDisjoint ==
    Encoded =>
        \A i \in 1..Len(code) : \A t \in Snapshots :
            encodeUserInput(code[i], playerNum) # encodeUserInput(t, 3 - playerNum)

\* C4 as amended: the tokens of the two sides differ except for the snapshot
\* without direction and power hit, which is "-/" for both; the serve code shows
\* the side exactly when the log holds a snapshot other than that one.
C4_SidesDisjointButNeutral ==
    Encoded =>
        /\ \A i \in 1..Len(code) : \A t \in Snapshots :
               (new_code[i] = encodeUserInput(t, 3 - playerNum))
                   <=> (code[i] = Neutral /\ t = Neutral)
        /\ ShownSide(MsgOutput) =
               IF \E i \in 1..Len(code) : code[i] # Neutral THEN playerNum ELSE 0

C4_Witness ==
    /\ Encoded
    /\ playerNum = 2
    /\ Len(code) = LongRun + 1
    /\ code[1] = Neutral
    /\ code[2] # Neutral
    /\ ShownSide(MsgOutput) = 2

(***************************************************************************)
(* The flush of round().                                                   *)
(***************************************************************************)
\* the side round() encodes for
HumanSide == IF game.physics.player1.isComputer THEN 2 ELSE 1

\* the serve code of the log that was flushed last
FlushedCode == concatListAsString(encodeActList(consoleLog, HumanSide))

\* C5 as claimed: on a flush the display receives the whole concatenation of the
\* runs, beginning with the complete token of the first run.
C5_DisplayIsConcatenation == isBallTouchingGround => codeViewerOutput = FlushedCode

\* C5 as amended: on a flush the display receives the concatenation of the runs
\* without its first character, the '-' that opens the first token; all the rest
\* is there in order.
C5_DisplayIsConcatenationSliced ==
    isBallTouchingGround =>
        /\ FlushedCode[1] = "-"
        /\ <<"-">> \o codeViewerOutput = FlushedCode
        /\ ExpandRuns(ParseRuns(<<"-">> \o codeViewerOutput))
               = encodeActList(consoleLog, HumanSide)

C5_Witness ==
    /\ isBallTouchingGround
    /\ HumanSide = 1
    /\ consoleLog = <<PikaUserInput(0, 0, 1), PikaUserInput(0, 0, 0)>>
    /\ codeViewerOutput = <<"H", "/", "1", "-", "/", "1">>

\* C6: at a flush the log holds one snapshot per round tick run since the round
\* began or the log was last cleared, the touching tick included, and the counts
\* of the runs of the displayed serve code add up to that number.
C6_LogLengthIsTicks ==
    isBallTouchingGround =>
        /\ Len(consoleLog) = flushedTicks
        /\ SumCounts(ParseRuns(codeViewerOutput)) = flushedTicks

C6_Witness ==
    /\ isBallTouchingGround
    /\ flushedTicks = MaxActLen
    /\ Len(consoleLog) = MaxActLen
    /\ game.state = "afterEndOfRound"

\* a step of gameLoop that runs round()
RoundTick == runsRound(game) /\ restarts' = restarts /\ game'.paused = game.paused
                 /\ game'.isPracticeMode = game.isPracticeMode

\* the step on which beforeStartOfNextRound hands over to round
Handover == game.state = "beforeStartOfNextRound" /\ game'.state = "round"

\* C7: the action log is empty after every round tick on which the ball touched
\* the ground, and empty when beforeStartOfNextRound hands over to round.
C7_LogClearedOnTouchAndHandover ==
    [][/\ (RoundTick /\ isBallTouchingGround') => ActList' = <<>>
       /\ Handover => ActList' = <<>>]_vars

\* a second round has begun after a first one was played to its end with ticks
\* that were not flushed
C7_Witness ==
    /\ game.state = "round"
    /\ game.roundEnded = FALSE
    /\ restarts = 0
    /\ flushedTicks = 1
    /\ roundTicks = 0
    /\ ActList = <<>>
    /\ ~isBallTouchingGround

\* C8: a round tick appends exactly one snapshot to the log, the input of player 2
\* when player1.isComputer and of player 1 otherwise, that player is not a
\* computer, and a flush on that tick encodes the log for that player's side.
C8_OneHumanSnapshotPerTick ==
    [][RoundTick =>
          LET pushed == Append(ActList, inputOf(keyboardArray'[HumanSide]))
          IN  /\ HumanSide = 2 => ~game.physics.player2.isComputer
              /\ HumanSide = 1 => ~game.physics.player1.isComputer
              /\ IF isBallTouchingGround'
                 THEN /\ consoleLog' = pushed
                      /\ <<"-">> \o codeViewerOutput'
                             = concatListAsString(encodeActList(pushed, HumanSide))
                 ELSE ActList' = pushed]_vars

\* player 2 is the human and the two keyboards differed on the flushed tick
C8_Witness ==
    /\ isBallTouchingGround
    /\ HumanSide = 2
    /\ Len(consoleLog) = 2
    /\ consoleLog[1].powerHit = 1
    /\ isDown = {"Enter"}
    /\ codeViewerOutput = <<"/", "H", "1", "-", "/", "1">>

\* C9: getInput sets powerHit to 1 exactly when the power-hit key is down at this
\* call and was not down at the previous call, to 0 otherwise; powerHit is never 1
\* on two consecutive calls.
C9_PowerHitEdgeTriggered ==
    \A i \in {1, 2} :
        LET h == getInputHistory[i]
        IN  /\ keyboardArray[i].powerHit = IF h.last /\ ~h.before THEN 1 ELSE 0
            /\ keyboardArray[i].powerHitKeyIsDownPrevious = h.last
            /\ ~(keyboardArray[i].powerHit = 1 /\ h.hitBefore = 1)

\* the key was held over two calls: the pulse of the first call is gone
C9_Witness ==
    /\ "KeyZ" \in isDown
    /\ getInputHistory[1] = [before |-> TRUE, last |-> TRUE, hitBefore |-> 1]
    /\ keyboardArray[1].powerHit = 0

\* C10: a gameLoop call made while paused changes neither the controller's state,
\* counters and scores, nor the action log, nor a keyboard's fields, nor the
\* display, and calls neither the recorder nor the state function.
C10_PausedGameLoopIsNoOp ==
    [][(game.paused /\ game'.paused /\ game'.isPracticeMode = game.isPracticeMode) =>
          /\ UNCHANGED <<game, keyboardArray, ActList, codeViewerOutput, consoleLog,
                         roundTicks>>
          /\ ~recorded']_vars

\* a call made in a round while paused, with the power-hit key newly down
C10_Witness ==
    /\ game.paused
    /\ game.state = "round"
    /\ ~recorded
    /\ "KeyZ" \in isDown
    /\ keyboardArray[1].powerHitKeyIsDownPrevious = FALSE
    /\ Len(ActList) = 1

(***************************************************************************)
(* Slow motion, scoring and the end of a match.                            *)
(***************************************************************************)
\* a step of gameLoop (not of the restart button or of a control)
GameLoopStep == restarts' = restarts /\ game'.paused = game.paused
                    /\ game'.isPracticeMode = game.isPracticeMode

\* this step ran the state function
StateRan ==
    IF game.state = "round" THEN ActList' # ActList \/ isBallTouchingGround'
    ELSE game'.frameCounter # game.frameCounter \/ game'.state # game.state

\* C11: once a round-ending ground touch has set slowMotionFramesLeft to 6, the
\* state function runs on every 5th gameLoop call only, each such call counts
\* slowMotionFramesLeft down by one, and with slowMotionFramesLeft back at 0 every
\* call runs the state function.
C11_SlowMotionWindow ==
    [][GameLoopStep =>
          LET left == game.slowMotionFramesLeft
              skipped == game.slowMotionNumOfSkippedFrames
          IN  /\ left \in 0..6 /\ skipped \in 0..4
              /\ left > 0 =>
                     /\ game.state = "round" /\ game.roundEnded
                     /\ IF skipped = 4
                        THEN /\ StateRan
                             /\ game'.slowMotionFramesLeft = left - 1
                             /\ game'.slowMotionNumOfSkippedFrames = 0
                        ELSE /\ ~StateRan
                             /\ game' = [game EXCEPT !.slowMotionNumOfSkippedFrames = skipped + 1]
              /\ left = 0 =>
                     /\ skipped = 0
                     /\ StateRan
                     /\ game'.slowMotionFramesLeft \in {0, 6}
                     /\ game'.slowMotionFramesLeft = 6 =>
                            isBallTouchingGround' /\ ~game.roundEnded /\ game'.roundEnded]_vars

\* the window has run to its end: the sixth slowed tick handed over to the fade-out
C11_Witness ==
    /\ game.state = "afterEndOfRound"
    /\ game.frameCounter = 0
    /\ game.slowMotionFramesLeft = 0
    /\ game.roundEnded
    /\ restarts = 0

\* a round tick whose ground touch ends a round that is not a practice round
ScoringTick ==
    /\ RoundTick
    /\ isBallTouchingGround'
    /\ ~game.isPracticeMode /\ ~game.roundEnded /\ ~game.gameEnded

\* where the ball of this tick landed
LandedLeft == game'.physics.ball.punchEffectX < GROUND_HALF_WIDTH

\* C12 as claimed: on a round-ending ground touch player 2's score goes up by one
\* when punchEffectX < GROUND_HALF_WIDTH, player 1's otherwise.
C12_LandingSideScores ==
    [][ScoringTick =>
          IF LandedLeft
          THEN game'.scores = <<game.scores[1], game.scores[2] + 1>>
          ELSE game'.scores = <<game.scores[1] + 1, game.scores[2]>>]_vars

\* C12 as amended: on a round-ending ground touch no score changes; the landing
\* side decides who is marked as the next server: isPlayer2Serve becomes true when
\* punchEffectX < GROUND_HALF_WIDTH and false otherwise, the centre included; the
\* round is marked ended.
C12_LandingSideMarksServer ==
    [][ScoringTick =>
          /\ game'.scores = game.scores
          /\ game'.isPlayer2Serve = LandedLeft
          /\ game'.roundEnded]_vars

\* a round has ended with the ball landing exactly at the centre
C12_Witness ==
    /\ isBallTouchingGround
    /\ game.slowMotionFramesLeft = SLOW_MOTION_FRAMES_NUM
    /\ game.physics.ball.punchEffectX = GROUND_HALF_WIDTH
    /\ game.roundEnded
    /\ ~game.isPlayer2Serve

\* C13: the score is 0 : 0 in every reachable state, gameEnded is never true, no
\* player is marked winner or told that the game has ended.
C13_ScoreStaysZero ==
    /\ game.scores = <<0, 0>>
    /\ ~game.gameEnded
    /\ \A p \in {game.physics.player1, game.physics.player2} : ~p.isWinner /\ ~p.gameEnded

\* a second round is being played after a first one was lost on the left side
C13_Witness ==
    /\ game.state = "round"
    /\ ~game.roundEnded
    /\ game.isPlayer2Serve
    /\ roundTicks = 1
    /\ game.scores = <<0, 0>>

C15_HumanServes ==
    (\/ game.state \in {"startOfNewGame", "beforeStartOfNextRound"} /\ game.frameCounter >= 1
     \/ game.state = "round" /\ roundTicks = 0 /\ ~game.roundEnded)
        => game.physics.ball.x = IF game.physics.player1.isComputer THEN 376 ELSE 56

\* player 1 is the human and serves again although the ball landed on the left
C15_Witness ==
    /\ game.state = "beforeStartOfNextRound"
    /\ game.frameCounter = 1
    /\ game.isPlayer2Serve
    /\ ~game.physics.player1.isComputer
    /\ game.physics.ball.x = 56

\* the step on which the menu selection is confirmed
MenuConfirm == game.state = "menu" /\ game'.state = "afterMenuSelection"

\* C16: confirming 'with computer' (selectedWithWho = 0) with keyboard 1's power-hit
\* key makes player 1 human and player 2 computer, also when both keyboards pulse;
\* with keyboard 2's key alone it makes player 1 computer and player 2 human;
\* confirming 'with friend' makes both human.  After a confirmation at most one
\* player is a computer.
C16_ConfirmingKeyDecidesSide ==
    [][LET p1c == game'.physics.player1.isComputer
           p2c == game'.physics.player2.isComputer
           hit1 == keyboardArray'[1].powerHit = 1
           hit2 == keyboardArray'[2].powerHit = 1
       IN  /\ MenuConfirm =>
                  /\ hit1 \/ hit2
                  /\ (game'.selectedWithWho = 0 /\ hit1) => ~p1c /\ p2c
                  /\ (game'.selectedWithWho = 0 /\ ~hit1) => p1c /\ ~p2c
                  /\ game'.selectedWithWho = 1 => ~p1c /\ ~p2c
           /\ game'.state \notin {"intro", "menu"} => ~(p1c /\ p2c)]_vars

\* 'with computer' was confirmed with both power-hit keys on one tick
C16_Witness ==
    /\ game.state = "afterMenuSelection"
    /\ game.frameCounter = 0
    /\ game.selectedWithWho = 0
    /\ keyboardArray[1].powerHit = 1 /\ keyboardArray[2].powerHit = 1
    /\ ~game.physics.player1.isComputer
    /\ game.physics.player2.isComputer

\* C17: on a round tick against the computer the human side's xDirection,
\* yDirection and powerHit, as handed to the physics step and as recorded in the
\* log, each equal keyboard 1's value of this call when it is not 0 and keyboard
\* 2's value otherwise; directions are in {-1,0,1} and powerHit in {0,1}.
C17_HumanUsesBothKeySets ==
    [][(RoundTick /\ game.physics.player1.isComputer # game.physics.player2.isComputer) =>
          LET k1 == getInput(keyboardArray[1], Keyboard1Keys, isDown')
              k2 == getInput(keyboardArray[2], Keyboard2Keys, isDown')
              human == keyboardArray'[HumanSide]
              logged == IF isBallTouchingGround' THEN consoleLog' ELSE ActList'
          IN  /\ human.xDirection = IF k1.xDirection # 0 THEN k1.xDirection ELSE k2.xDirection
              /\ human.yDirection = IF k1.yDirection # 0 THEN k1.yDirection ELSE k2.yDirection
              /\ human.powerHit = IF k1.powerHit # 0 THEN k1.powerHit ELSE k2.powerHit
              /\ human.xDirection \in {-1, 0, 1}
              /\ human.yDirection \in {-1, 0, 1}
              /\ human.powerHit \in {0, 1}
              /\ logged[Len(logged)]
                     = PikaUserInput(human.xDirection, human.yDirection, human.powerHit)]_vars

\* player 2 is the human, holds left on keyboard 1 against right on keyboard 2, and
\* hits with keyboard 2
C17_Witness ==
    /\ game.state = "round"
    /\ game.physics.player1.isComputer
    /\ isDown = {"KeyD", "ArrowRight", "ArrowDown", "Enter"}
    /\ ActList = <<PikaUserInput(-1, 1, 1)>>

(***************************************************************************)
(* The display, the random number generator and the tokens of the log.     *)
(***************************************************************************)
\* C18 as claimed: the serve-code display keeps its content from a round's ground
\* touch until the fade-out of afterEndOfRound has completed; it changes only on
\* the step that completes the fade-out.
C18_DisplayUpdatedAfterFadeOut ==
    [][codeViewerOutput' # codeViewerOutput =>
          game.state = "afterEndOfRound" /\ game'.state = "beforeStartOfNextRound"]_vars

\* C19 as claimed: no round tick runs before setCustomRng has been called.
C19_SeededBeforeRoundTick == [][RoundTick => setCustomRngCalls >= 1]_vars

\* C20: every snapshot in the action log has xDirection and yDirection in
\* {-1,0,1} and powerHit in {0,1}; at a flush encodeUserInput gives a defined token
\* for every element of the log and the displayed serve code holds no character
\* of "undefined".
C20_NoTokenizationMiss ==
    LET InRange(snapshot) ==
            /\ snapshot.xDirection \in {-1, 0, 1}
            /\ snapshot.yDirection \in {-1, 0, 1}
            /\ snapshot.powerHit \in {0, 1}
    IN  /\ \A i \in 1..Len(ActList) : InRange(ActList[i])
        /\ isBallTouchingGround =>
               /\ \A i \in 1..Len(consoleLog) :
                      /\ InRange(consoleLog[i])
                      /\ encodeUserInput(consoleLog[i], HumanSide) # Undefined
               /\ \A i \in 1..Len(codeViewerOutput) :
                      codeViewerOutput[i] \in Letters \cup DigitSet \cup {"-", "/"}

\* a log with both power-hit keys and directions from both keyboards was flushed
C20_Witness ==
    /\ isBallTouchingGround
    /\ isDown = {"KeyZ", "Enter", "KeyR", "ArrowRight"}
    /\ consoleLog = <<PikaUserInput(1, -1, 1)>>
    /\ Len(codeViewerOutput) >= 5

(***************************************************************************)
(* The way back to play after a round, and the edges between game states.  *)
(***************************************************************************)
\* gameLoop calls made since the ground touch that ended the round, read off the
\* counters the controller keeps in an ended round
CallsSinceRoundEnd ==
    IF game.state = "round"
    THEN (SLOW_MOTION_FRAMES_NUM - game.slowMotionFramesLeft) * SlowMotionDivisor
             + game.slowMotionNumOfSkippedFrames
    ELSE IF game.state = "afterEndOfRound"
    THEN 30 + game.frameCounter
    ELSE 35 + game.frameCounter

\* C21: a round-ending ground touch outside practice mode leaves the game in state
\* round with roundEnded true; each of the next 64 gameLoop calls (no pause, no
\* restart) keeps roundEnded true and advances the count of calls by one through
\* 30 calls of slowed round ticks, 5 of afterEndOfRound and 30 of
\* beforeStartOfNextRound; the 65th call puts the game in state round with
\* roundEnded false, frameCounter 0 and an empty action log.
C21_BackInPlayAfter65Calls ==
    [][GameLoopStep =>
          /\ ScoringTick =>
                 /\ game'.state = "round" /\ game'.roundEnded
                 /\ CallsSinceRoundEnd' = 0
          /\ game.roundEnded =>
                 /\ game.state \in {"round", "afterEndOfRound", "beforeStartOfNextRound"}
                 /\ CallsSinceRoundEnd \in 0..64
                 /\ game.state = "round" <=> CallsSinceRoundEnd < 30
                 /\ game.state = "afterEndOfRound" <=> CallsSinceRoundEnd \in 30..34
                 /\ IF CallsSinceRoundEnd < 64
                    THEN /\ game'.roundEnded
                         /\ CallsSinceRoundEnd' = CallsSinceRoundEnd + 1
                    ELSE /\ game'.state = "round"
                         /\ ~game'.roundEnded
                         /\ game'.frameCounter = 0
                         /\ ActList' = <<>>]_vars

\* play has resumed after a round that ended with the ball on the left side
C21_Witness ==
    /\ game.state = "round"
    /\ ~game.roundEnded
    /\ game.isPlayer2Serve
    /\ game.frameCounter = 0
    /\ ActList = <<>>
    /\ roundTicks = 0
    /\ ~isBallTouchingGround
    /\ ~game.isPracticeMode

\* the edges between game states that a gameLoop call may take
StateEdges ==
    { <<"intro", "menu">>,
      <<"menu", "afterMenuSelection">>,
      <<"afterMenuSelection", "beforeStartOfNewGame">>,
      <<"beforeStartOfNewGame", "startOfNewGame">>,
      <<"startOfNewGame", "round">>,
      <<"round", "afterEndOfRound">>,
      <<"afterEndOfRound", "beforeStartOfNextRound">>,
      <<"beforeStartOfNextRound", "round">>,
      <<"round", "intro">> }

\* the states that end by their frame count
TimedStates ==
    {"afterMenuSelection", "beforeStartOfNewGame", "startOfNewGame", "afterEndOfRound",
     "beforeStartOfNextRound"}

\* a step of the restart button
RestartStep == restarts' = restarts + 1

\* C22: a gameLoop call changes the game state along one of the nine edges of
\* StateEdges only, restart() leads from any state to intro, and every change of
\* state leaves frameCounter at 0; in a timed state every state tick counts
\* frameCounter up by one from 0, and the tick that brings it to 15
\* (afterMenuSelection), 15 (beforeStartOfNewGame), 71 (startOfNewGame), 5
\* (afterEndOfRound) or 30 (beforeStartOfNextRound) is the one that leaves the
\* state, so that a timed state not left by restart() lasts exactly that many
\* state ticks.
C22_StateEdgesAndTimedStates ==
    [][LET ticks(s) == CASE s = "afterMenuSelection" -> 15
                         [] s = "beforeStartOfNewGame" -> 15
                         [] s = "startOfNewGame" -> 71
                         [] s = "afterEndOfRound" -> 5
                         [] s = "beforeStartOfNextRound" -> 30
       IN  /\ game'.state # game.state =>
                  /\ IF RestartStep THEN game'.state = "intro"
                     ELSE <<game.state, game'.state>> \in StateEdges
                  /\ game'.frameCounter = 0
           /\ RestartStep => game'.state = "intro" /\ game'.frameCounter = 0
           /\ game.state \in TimedStates =>
                  /\ game.frameCounter \in 0..(ticks(game.state) - 1)
                  /\ (GameLoopStep /\ reachesState(game)) =>
                         IF game.frameCounter + 1 = ticks(game.state)
                         THEN game'.state # game.state
                         ELSE /\ game'.state = game.state
                              /\ game'.frameCounter = game.frameCounter + 1]_vars

\* the restart button was clicked in the second round and the intro was left again
C22_Witness ==
    /\ game.state = "menu"
    /\ game.frameCounter = 0
    /\ restarts = 1
    /\ sinceRestart = 1
    /\ game.isPlayer2Serve
    /\ ~game.roundEnded
    /\ flushedTicks >= 1

====
